---- MODULE Spec2Model ----
(***************************************************************************)
(* ExcelFusion: merge_dataframes of src/ExcelFusion/utils.py as a state    *)
(* machine.  One call of merge_dataframes is one behaviour: the input      *)
(* check, one projection per table, the set-up of the running result and   *)
(* the statistics, one join per further table, and the return.             *)
(*                                                                         *)
(* Conventions.                                                            *)
(*  - A name (column label, file name) is a sequence of one-character      *)
(*    strings, so that str.split and string concatenation are computed.   *)
(*  - A table (DataFrame) is a record [cols, rows, dup]: the set of its    *)
(*    column labels, the sequence of its rows (each a function from the    *)
(*    labels to cell values) and whether the label of its merge column     *)
(*    occurs twice.  Column order is left out: the code takes it from the  *)
(*    iteration order of a Python set (list(selected_cols | {merge_col})), *)
(*    and nothing it computes depends on it.                               *)
(*  - Cells are integers.  Key cells are drawn from KeyVals, NaN is the    *)
(*    null cell a join fills in, and a non-key cell of row r of table t    *)
(*    holds Tag(t, r), which names the row it comes from.  The key cells   *)
(*    of the uploads are never null; a key column with rows is numeric     *)
(*    (int64, float64 once a NaN is filled in).                            *)
(*  - dfs, merge_columns, df_names are sequences indexed from 1: position  *)
(*    t holds the code's table t - 1 ("df{t-1}").  The loop variable i,    *)
(*    the keys of selected_columns and of the statistics are the code's    *)
(*    0-based indices.                                                     *)
(***************************************************************************)
EXTENDS Integers, Sequences, FiniteSets, TLC

\* ---------------------------------------------------------------- bounds
MaxTables == 3
MaxRows == 2
KeyVals == 1..2

\* The null cell (numpy.nan) that DataFrame.merge fills in.
NaN == 0

\* ----------------------------------------------------------------- names
K == <<"k">>
J == <<"j">>
V == <<"v">>
AV == <<"a", "_", "v">>

\* File names (display labels) of the uploaded files.
LabelA == <<"a", ".", "c">>
LabelB == <<"b", ".", "c">>
LabelAX == <<"a", ".", "x">>
LabelAB == <<"a", ".", "b", ".", "c">>

JoinModes == {"outer", "inner", "left", "right"}

\* The cell that names row r of table t (1-based position t).
Tag(t, r) == 10 * t + r

\* str.split('.')[0]: the text before the first '.', all of it when there is none.
RECURSIVE SplitFirst(_)
SplitFirst(name) ==
    IF name = <<>> THEN <<>>
    ELSE IF Head(name) = "." THEN <<>>
    ELSE <<Head(name)>> \o SplitFirst(Tail(name))

\* f"{name.split('.')[0]}_{col}"
RenamedCol(name, col) == SplitFirst(name) \o <<"_">> \o col

\* selected_columns.get(f"df{i}", set())
SelectedCols(selected, i) == IF i \in DOMAIN selected THEN selected[i] ELSE {}

\* Faulty variant: the merge column is kept only when the caller selected it.
ColsToKeepSelectedOnly(selected_cols, merge_col) == selected_cols

\* cols_to_keep = list(selected_cols | {merge_col})
ColsToKeep(selected_cols, merge_col) == selected_cols \cup {merge_col}

\* rename_dict applied to one label: every label but merge_col gets the prefix.
NewLabel(name, merge_col, col) ==
    IF col = merge_col THEN col ELSE RenamedCol(name, col)

\* df[cols_to_keep] raises KeyError when a label is not a column of df.
ProjectRaises(df, merge_col, selected_cols) ==
    ~(ColsToKeep(selected_cols, merge_col) \subseteq df.cols)

\* df[cols_to_keep].copy() followed by rename(columns=rename_dict).
FilteredDf(df, merge_col, selected_cols, name) ==
    LET keep == ColsToKeep(selected_cols, merge_col)
        newCols == {NewLabel(name, merge_col, c) : c \in keep}
        Orig(nc) == IF nc = merge_col /\ merge_col \in keep THEN merge_col
                    ELSE CHOOSE c \in keep : NewLabel(name, merge_col, c) = nc
    IN  [cols |-> newCols,
         rows |-> [r \in 1..Len(df.rows) |->
                      [nc \in newCols |-> df.rows[r][Orig(nc)]]],
         dup  |-> \E c \in keep : c # merge_col
                                  /\ NewLabel(name, merge_col, c) = merge_col]

\* ------------------------------------------------------------ statistics
\* set(frame[col]): the distinct non-null cells and the NaN elements.  In a
\* float64 column every NaN cell is an element of its own (iterating the
\* column yields a fresh float per cell, and a NaN equals nothing, itself
\* included); in an object column all NaN cells are the one object numpy.nan.
PySet(frame, col, float64) ==
    LET nanCells == {r \in 1..Len(frame.rows) : frame.rows[r][col] = NaN}
    IN  [vals |-> {frame.rows[r][col] : r \in 1..Len(frame.rows)} \ {NaN},
         nans |-> IF float64 \/ nanCells = {} THEN Cardinality(nanCells) ELSE 1]

\* The key column of the running result is numeric when the first table has
\* rows; read_csv and read_excel give the columns of a table without rows the
\* dtype object, and the joins keep it.
NumericKey(tables) == tables[1].rows # <<>>

\* len(a - b) for two such sets: no NaN of a is an element of b.
PyDiffLen(a, b) == Cardinality(a.vals \ b.vals) + a.nans

\* Faulty variant: only the first table's rows are counted.
TotalRowsFirstOnly(tables) == IF tables = <<>> THEN 0 ELSE Len(tables[1].rows)

\* sum(len(df) for df in dfs)
RECURSIVE TotalRowsOriginal(_)
TotalRowsOriginal(tables) ==
    IF tables = <<>> THEN 0
    ELSE Len(Head(tables).rows) + TotalRowsOriginal(Tail(tables))

\* ------------------------------------------------------- DataFrame.merge
\* The row positions 1..n of a frame, as a sequence.
Positions(frame) == [r \in 1..Len(frame.rows) |-> r]

\* The positions of the rows of frame whose cell in col is v, in row order.
RowsWithKey(frame, col, v) ==
    LET Test(r) == frame.rows[r][col] = v
    IN  SelectSeq(Positions(frame), Test)

\* <<l, r>> for one l and every r of rs, in order.
RECURSIVE PairWithEach(_, _)
PairWithEach(l, rs) ==
    IF rs = <<>> THEN <<>> ELSE <<<<l, Head(rs)>>>> \o PairWithEach(l, Tail(rs))

\* <<l, r>> for every l of ls, in order.
RECURSIVE EachPairedWith(_, _)
EachPairedWith(ls, r) ==
    IF ls = <<>> THEN <<>> ELSE <<<<Head(ls), r>>>> \o EachPairedWith(Tail(ls), r)

\* Every pair of a row of ls with a row of rs: ls-major, both in order.
RECURSIVE Cross(_, _)
Cross(ls, rs) ==
    IF ls = <<>> THEN <<>> ELSE PairWithEach(Head(ls), rs) \o Cross(Tail(ls), rs)

\* how = 'inner' and 'left': the left rows in order, each with its matching
\* right rows; an unmatched left row is kept (paired with 0) iff keepUnmatched.
RECURSIVE LeftOrderPairs(_, _, _, _, _, _)
LeftOrderPairs(left, right, left_on, right_on, keepUnmatched, from) ==
    IF from > Len(left.rows) THEN <<>>
    ELSE LET rs == RowsWithKey(right, right_on, left.rows[from][left_on])
             here == IF rs # <<>> THEN PairWithEach(from, rs)
                     ELSE IF keepUnmatched THEN <<<<from, 0>>>> ELSE <<>>
         IN  here \o LeftOrderPairs(left, right, left_on, right_on,
                                    keepUnmatched, from + 1)

\* how = 'right': the right rows in order, each with its matching left rows;
\* an unmatched right row is kept, paired with 0.
RECURSIVE RightOrderPairs(_, _, _, _, _)
RightOrderPairs(left, right, left_on, right_on, from) ==
    IF from > Len(right.rows) THEN <<>>
    ELSE LET ls == RowsWithKey(left, left_on, right.rows[from][right_on])
             here == IF ls # <<>> THEN EachPairedWith(ls, from)
                     ELSE <<<<0, from>>>>
         IN  here \o RightOrderPairs(left, right, left_on, right_on, from + 1)

\* The rows of both sides that hold key v.
GroupPairs(left, right, left_on, right_on, v) ==
    LET ls == RowsWithKey(left, left_on, v)
        rs == RowsWithKey(right, right_on, v)
    IN  IF ls = <<>> THEN [n \in 1..Len(rs) |-> <<0, rs[n]>>]
        ELSE IF rs = <<>> THEN [n \in 1..Len(ls) |-> <<ls[n], 0>>]
        ELSE Cross(ls, rs)

\* how = 'outer': the keys of either side in ascending order, NaN last.
RECURSIVE SortedGroups(_, _, _, _, _)
SortedGroups(left, right, left_on, right_on, keys) ==
    IF keys = {} THEN <<>>
    ELSE LET v == CHOOSE x \in keys : \A y \in keys : x <= y
         IN  GroupPairs(left, right, left_on, right_on, v)
             \o SortedGroups(left, right, left_on, right_on, keys \ {v})

OuterPairs(left, right, left_on, right_on) ==
    LET lk == PySet(left, left_on, TRUE)
        rk == PySet(right, right_on, TRUE)
    IN  SortedGroups(left, right, left_on, right_on, lk.vals \cup rk.vals)
        \o (IF lk.nans + rk.nans > 0
            THEN GroupPairs(left, right, left_on, right_on, NaN) ELSE <<>>)

\* Faulty variant: how = 'inner' keeps the unmatched left rows as 'left' does.
JoinPairsInnerAsLeft(left, right, left_on, right_on, how) ==
    CASE how \in {"inner", "left"} ->
             LeftOrderPairs(left, right, left_on, right_on, TRUE, 1)
      [] how = "right" -> RightOrderPairs(left, right, left_on, right_on, 1)
      [] how = "outer" -> OuterPairs(left, right, left_on, right_on)

\* The pairs <<left row, right row>> (0: no row of that side) that make up the
\* rows of left.merge(right, left_on=, right_on=, how=), in result order.
JoinPairs(left, right, left_on, right_on, how) ==
    CASE how = "inner" -> LeftOrderPairs(left, right, left_on, right_on, FALSE, 1)
      [] how = "left"  -> LeftOrderPairs(left, right, left_on, right_on, TRUE, 1)
      [] how = "right" -> RightOrderPairs(left, right, left_on, right_on, 1)
      [] how = "outer" -> OuterPairs(left, right, left_on, right_on)

\* The labels of right that take part in the column concatenation: with one
\* key name on both sides the right key column is folded into the left one.
RightLabels(right, left_on, right_on) ==
    IF left_on = right_on THEN right.cols \ {right_on} ELSE right.cols

\* suffixes=('_x', '_y'): a label found on both sides gets its side's suffix.
Suffixed(col, overlap, suffix) ==
    IF col \in overlap THEN col \o <<"_", suffix>> ELSE col

\* The labels of the joined frame before the right key column is dropped.
JoinedLabels(left, right, left_on, right_on) ==
    LET rl == RightLabels(right, left_on, right_on)
        overlap == left.cols \cap rl
    IN  {Suffixed(c, overlap, "x") : c \in left.cols}
        \cup {Suffixed(c, overlap, "y") : c \in rl}

\* The suffixes make two labels of one side equal: merge raises MergeError
\* ("Passing 'suffixes' which cause duplicate columns ... is not allowed").
SuffixClash(left, right, left_on, right_on) ==
    LET rl == RightLabels(right, left_on, right_on)
        overlap == left.cols \cap rl
    IN  \/ \E c1, c2 \in left.cols :
              c1 # c2 /\ Suffixed(c1, overlap, "x") = Suffixed(c2, overlap, "x")
        \/ \E c1, c2 \in rl :
              c1 # c2 /\ Suffixed(c1, overlap, "y") = Suffixed(c2, overlap, "y")

\* One row of the joined frame, from the pair <<l, r>> of row positions.
JoinedRow(left, right, left_on, right_on, pair) ==
    LET rl == RightLabels(right, left_on, right_on)
        overlap == left.cols \cap rl
        l == pair[1]
        r == pair[2]
    IN  [nc \in JoinedLabels(left, right, left_on, right_on) |->
            IF \E c \in left.cols : Suffixed(c, overlap, "x") = nc
            THEN LET c == CHOOSE c \in left.cols : Suffixed(c, overlap, "x") = nc
                 IN  IF l # 0 THEN left.rows[l][c]
                     ELSE IF left_on = right_on /\ c = left_on
                          THEN right.rows[r][right_on]
                          ELSE NaN
            ELSE LET c == CHOOSE c \in rl : Suffixed(c, overlap, "y") = nc
                 IN  IF r # 0 THEN right.rows[r][c] ELSE NaN]

\* result.merge(df, left_on=left_col, right_on=right_col, how=merge_type)
Merged(left, right, left_on, right_on, how) ==
    LET pairs == JoinPairs(left, right, left_on, right_on, how)
    IN  [cols |-> JoinedLabels(left, right, left_on, right_on),
         rows |-> [n \in 1..Len(pairs) |->
                      JoinedRow(left, right, left_on, right_on, pairs[n])],
         dup  |-> FALSE]

\* frame.drop(col, axis=1), for a label the frame has.
Dropped(frame, col) ==
    [cols |-> frame.cols \ {col},
     rows |-> [n \in 1..Len(frame.rows) |->
                  [c \in frame.cols \ {col} |-> frame.rows[n][c]]],
     dup  |-> frame.dup]

\* The body of the try block raises: result[left_col] on a missing label
\* (KeyError), merge on a key label that is not unique (ValueError) or on
\* clashing suffixes (MergeError), drop on a missing label (KeyError).
MergeStepRaises(left, right, left_col, right_col) ==
    \/ left_col \notin left.cols
    \/ right_col \notin right.cols
    \/ left.dup
    \/ right.dup
    \/ SuffixClash(left, right, left_col, right_col)
    \/ /\ left_col # right_col
       /\ right_col \notin JoinedLabels(left, right, left_col, right_col)

\* The running result after one pass of the loop body that does not raise.
MergeStepResult(left, right, left_col, right_col, how) ==
    LET merged == Merged(left, right, left_col, right_col, how)
    IN  IF left_col # right_col THEN Dropped(merged, right_col) ELSE merged

\* new_rows = len(right_keys - left_keys)
NewRows(left, right, left_col, right_col, float64) ==
    PyDiffLen(PySet(right, right_col, TRUE), PySet(left, left_col, float64))

\* missing_rows = len(left_keys - right_keys)
MissingRows(left, right, left_col, right_col, float64) ==
    PyDiffLen(PySet(left, left_col, float64), PySet(right, right_col, TRUE))

\* ------------------------------------------------------------------ state
VARIABLES
    dfs,               \* the uploaded tables, in upload order
    merge_columns,     \* merge_columns[t]: the merge column chosen for table t
    selected_columns,  \* the dict of selections, keyed by the 0-based index
    df_names,          \* the file names
    merge_type,        \* 'outer', 'inner', 'left' or 'right'
    filtered_dfs,      \* the projected and renamed tables built so far
    result,            \* the running result
    merge_stats,       \* the statistics dict
    i,                 \* the loop variable of the loop that is running
    pc,                \* where merge_dataframes stands
    raised,            \* the exception that ended the call, "" when none
    returned           \* <<>> until the call returns <<result, merge_stats>>

vars == <<dfs, merge_columns, selected_columns, df_names, merge_type,
          filtered_dfs, result, merge_stats, i, pc, raised, returned>>

inputs == <<dfs, merge_columns, selected_columns, df_names, merge_type>>

NoFrame == [cols |-> {}, rows |-> <<>>, dup |-> FALSE]
EmptyDict == [x \in {} |-> 0]
NoStats == [total_rows_original |-> 0,
            new_rows_per_file |-> EmptyDict,
            missing_rows_per_file |-> EmptyDict]

\* ----------------------------------------------------------------- inputs
\* An uploaded table: the column col of key cells and the column v of cells
\* that name their row.
Upload(t, col, keys) ==
    [cols |-> {col, V},
     rows |-> [r \in 1..Len(keys) |-> (col :> keys[r]) @@ (V :> Tag(t, r))],
     dup  |-> FALSE]

\* The key columns an upload can hold: up to MaxRows cells of KeyVals.
KeySeqs == UNION {[1..n -> KeyVals] : n \in 0..MaxRows}

\* One label per upload position, with pairwise different stems.
Letters == <<"a", "b", "c", "d", "e", "f">>
PositionLabel(t) == <<Letters[t], ".", "c">>

\* What the caller passes for one table: the table's key column (col) and its
\* cells (keys), the merge column chosen for it (key), its file name (label)
\* and its entry of selected_columns (sel, with has = FALSE for no entry).
Choice(col, key, keys, label, has, sel) ==
    [col |-> col, key |-> key, keys |-> keys, label |-> label,
     has |-> has, sel |-> sel]

\* The sequences of n choices, the one at position t drawn from Choices[t].
RECURSIVE ChoiceSeqs(_, _)
ChoiceSeqs(Choices, n) ==
    IF n = 0 THEN {<<>>}
    ELSE {Append(cs, c) : cs \in ChoiceSeqs(Choices, n - 1), c \in Choices[n]}

\* The state at the call merge_dataframes(dfs, merge_columns,
\* selected_columns, df_names, merge_type).
InitFrom(Choices, Modes) ==
    /\ \E n \in 0..MaxTables : \E cs \in ChoiceSeqs(Choices, n) :
          /\ dfs = [t \in 1..n |-> Upload(t, cs[t].col, cs[t].keys)]
          /\ merge_columns = [t \in 1..n |-> cs[t].key]
          /\ df_names = [t \in 1..n |-> cs[t].label]
          /\ selected_columns =
                [x \in {t - 1 : t \in {u \in 1..n : cs[u].has}} |-> cs[x + 1].sel]
    /\ merge_type \in Modes
    /\ filtered_dfs = <<>>
    /\ result = NoFrame
    /\ merge_stats = NoStats
    /\ i = 0
    /\ pc = "check"
    /\ raised = ""
    /\ returned = <<>>

\* The key columns whose cells stand in ascending order.
SortedKeySeqs ==
    {keys \in KeySeqs :
        \A a, b \in 1..Len(keys) : a < b => keys[a] <= keys[b]}

\* The merge column of the first table is k; a later table's is k or j.
KeyNames(t) == IF t = 1 THEN {K} ELSE {K, J}

\* Joins: every table has its key column and v, both selected, and is named
\* after its position; the key names, the key cells and the merge type vary.
JoinChoices ==
    [t \in 1..MaxTables |->
        {Choice(col, col, keys, PositionLabel(t), TRUE, {col, V}) :
            col \in KeyNames(t), keys \in KeySeqs}]

\* Inner joins: as JoinChoices, the key cells of a table in ascending order.
InnerChoices ==
    [t \in 1..MaxTables |->
        {Choice(col, col, keys, PositionLabel(t), TRUE, {col, V}) :
            col \in KeyNames(t), keys \in SortedKeySeqs}]

\* Row counts: every table has the key column k and v, both selected; the
\* key cells, in ascending order, and the merge type vary.
TotalsChoices ==
    [t \in 1..MaxTables |->
        {Choice(K, K, keys, PositionLabel(t), TRUE, {K, V}) : keys \in SortedKeySeqs}]

\* What the caller can pass as one table's entry of selected_columns: no
\* entry, nothing, v alone, or v and the table's key column.
Selections(col) ==
    {[has |-> FALSE, sel |-> {}], [has |-> TRUE, sel |-> {}],
     [has |-> TRUE, sel |-> {V}], [has |-> TRUE, sel |-> {col, V}]}

\* Projections: every table holds k and v; the merge column is k or the
\* absent j, and the selection varies.
ProjectChoices ==
    [t \in 1..MaxTables |->
        {Choice(K, key, <<1, 2>>, PositionLabel(t), s.has, s.sel) :
            key \in {K, J}, s \in Selections(K)}]

\* Names: the file names and the selections vary; the merge column is k or
\* the absent j, and the first table may have the key column a_v instead.
NameChoices ==
    [t \in 1..MaxTables |->
        {Choice(K, key, <<1, 2>>, label, s.has, s.sel) :
            key \in {K, J}, label \in {LabelA, LabelB, LabelAX, LabelAB},
            s \in Selections(K) \ {[has |-> TRUE, sel |-> {}]}}
        \cup (IF t = 1
              THEN {Choice(AV, AV, <<1, 2>>, label, TRUE, sel) :
                       label \in {LabelA, LabelB}, sel \in {{V}, {AV}}}
              ELSE {})]

Init == InitFrom(JoinChoices, JoinModes)
InitInner == InitFrom(InnerChoices, {"inner"})
InitTotals == InitFrom(TotalsChoices, JoinModes)
InitProject == InitFrom(ProjectChoices, JoinModes)
InitNames == InitFrom(NameChoices, {"outer", "inner"})

\* ---------------------------------------------------------------- actions
\* Faulty variant: only an empty list is refused.
TooFewOnlyEmpty(tables) == Len(tables) = 0

\* if not dfs or len(dfs) < 2
TooFew(tables) == Len(tables) = 0 \/ Len(tables) < 2

\* Lines 19-20: the input check.
CheckInput ==
    /\ pc = "check"
    /\ IF TooFew(dfs)
       THEN /\ pc' = "raised"
            /\ raised' = "ValueError: At least two DataFrames are required for merging"
       ELSE /\ pc' = "filter"
            /\ raised' = raised
    /\ UNCHANGED <<inputs, filtered_dfs, result, merge_stats, i, returned>>

\* zip(dfs, df_names) stops at the shorter of the two.
Zipped == IF Len(dfs) < Len(df_names) THEN Len(dfs) ELSE Len(df_names)

\* Lines 24-42: one pass of the projection loop, for the code's table i.
\* df[cols_to_keep] stands outside any try: its KeyError leaves the function.
FilterStep ==
    /\ pc = "filter"
    /\ i < Zipped
    /\ LET merge_col == merge_columns[i + 1]
           selected_cols == SelectedCols(selected_columns, i)
       IN  IF ProjectRaises(dfs[i + 1], merge_col, selected_cols)
           THEN /\ pc' = "raised"
                /\ raised' = "KeyError"
                /\ UNCHANGED <<filtered_dfs, i>>
           ELSE /\ filtered_dfs' = Append(filtered_dfs,
                       FilteredDf(dfs[i + 1], merge_col, selected_cols,
                                  df_names[i + 1]))
                /\ i' = i + 1
                /\ UNCHANGED <<pc, raised>>
    /\ UNCHANGED <<inputs, result, merge_stats, returned>>

\* Lines 44-49: the running result and the statistics dict.
StartMerge ==
    /\ pc = "filter"
    /\ i = Zipped
    /\ result' = filtered_dfs[1]
    /\ merge_stats' = [total_rows_original |-> TotalRowsOriginal(dfs),
                       new_rows_per_file |-> EmptyDict,
                       missing_rows_per_file |-> EmptyDict]
    /\ i' = 1
    /\ pc' = "merge"
    /\ UNCHANGED <<inputs, filtered_dfs, raised, returned>>

\* Lines 51-80: one pass of the join loop, for the code's table i.  Whatever
\* the try block raises comes out as the ValueError of line 80.
MergeStep ==
    /\ pc = "merge"
    /\ i < Len(filtered_dfs)
    /\ LET df == filtered_dfs[i + 1]
           left_col == merge_columns[1]
           right_col == merge_columns[i + 1]
       IN  IF MergeStepRaises(result, df, left_col, right_col)
           THEN /\ pc' = "raised"
                /\ raised' = "ValueError: Error merging DataFrames"
                /\ UNCHANGED <<result, merge_stats, i>>
           ELSE /\ merge_stats' =
                      [merge_stats EXCEPT
                         !.new_rows_per_file =
                             (i :> NewRows(result, df, left_col, right_col,
                                            NumericKey(dfs))) @@ @,
                         !.missing_rows_per_file =
                             (i :> MissingRows(result, df, left_col, right_col,
                                                NumericKey(dfs))) @@ @]
                /\ result' = MergeStepResult(result, df, left_col, right_col,
                                             merge_type)
                /\ i' = i + 1
                /\ UNCHANGED <<pc, raised>>
    /\ UNCHANGED <<inputs, filtered_dfs, returned>>

\* Lines 82-83: total_rows_merged and the return.
Return ==
    /\ pc = "merge"
    /\ i = Len(filtered_dfs)
    /\ merge_stats' = [total_rows_original |-> merge_stats.total_rows_original,
                       new_rows_per_file |-> merge_stats.new_rows_per_file,
                       missing_rows_per_file |-> merge_stats.missing_rows_per_file,
                       total_rows_merged |-> Len(result.rows)]
    /\ returned' = <<result, merge_stats'>>
    /\ pc' = "done"
    /\ UNCHANGED <<inputs, filtered_dfs, result, i, raised>>

Next == CheckInput \/ FilterStep \/ StartMerge \/ MergeStep \/ Return

Spec == Init /\ [][Next]_vars
SpecInner == InitInner /\ [][Next]_vars
SpecTotals == InitTotals /\ [][Next]_vars
SpecProject == InitProject /\ [][Next]_vars
SpecNames == InitNames /\ [][Next]_vars

\* ------------------------------------------------------------- properties
\* The non-null cells of a column, {} when the frame has no such column.
KeyValues(frame, col) ==
    IF col \in frame.cols
    THEN {frame.rows[r][col] : r \in 1..Len(frame.rows)} \ {NaN}
    ELSE {}

\* The distinct cells of a column, the null cell counted as one value.
DistinctCells(frame, col) == {frame.rows[r][col] : r \in 1..Len(frame.rows)}

\* A file name without its trailing format suffix: the text before the last
\* '.', all of it when there is none.
RECURSIVE TrailingStripped(_)
TrailingStripped(name) ==
    IF name = <<>> THEN <<>>
    ELSE IF name[Len(name)] = "." THEN SubSeq(name, 1, Len(name) - 1)
    ELSE IF \A n \in 1..Len(name) : name[n] # "." THEN name
    ELSE TrailingStripped(SubSeq(name, 1, Len(name) - 1))

\* A pass of the join loop that did not raise.
Joined == pc = "merge" /\ pc' = "merge" /\ i' = i + 1

\* The labels of a projection other than its merge column.
NonKeyLabels(t) == filtered_dfs[t].cols \ {merge_columns[t]}

\* C1: in outer mode every join step keeps every key value of either side:
\* each key value of the running result's joinKeys[0] column and of table
\* i's joinKeys[i] column is in the joinKeys[0] column of the new running
\* result, whether or not the two key names are equal.
C1_OuterStepKeepsEveryKey ==
    [][(Joined /\ merge_type = "outer") =>
          (KeyValues(result, merge_columns[1])
             \cup KeyValues(filtered_dfs[i + 1], merge_columns[i + 1]))
          \subseteq KeyValues(result', merge_columns[1])]_vars

\* C2: with merge type 'right' every row of the second file is kept: the
\* returned table has a row that carries its key value and its cells.
C2_RightKeepsSecondFileRows ==
    (pc = "done" /\ merge_type = "right") =>
        \A r \in 1..Len(dfs[2].rows) :
            \E n \in 1..Len(returned[1].rows) :
                /\ returned[1].rows[n][merge_columns[1]]
                       = dfs[2].rows[r][merge_columns[2]]
                /\ returned[1].rows[n][RenamedCol(df_names[2], V)] = Tag(2, r)

\* C3: with merge type 'inner' every key value of the joinKeys[0] column of
\* the running result, and so of the returned table, is a key value of every
\* table joined so far.
C3_InnerKeysInAllTables ==
    (pc \in {"merge", "done"} /\ merge_type = "inner") =>
        \A n \in 1..Len(result.rows) : \A t \in 1..i :
            merge_columns[1] \in result.cols =>
                \E r \in 1..Len(dfs[t].rows) :
                    dfs[t].rows[r][merge_columns[t]]
                        = result.rows[n][merge_columns[1]]

\* An inner merge of three tables has returned; the key names differ, the
\* result has a row, and a key value of some table is in no row of it.
C3_Witness ==
    /\ pc = "done"
    /\ merge_type = "inner"
    /\ Len(dfs) = 3
    /\ merge_columns[2] # merge_columns[1]
    /\ KeyValues(returned[1], merge_columns[1]) # {}
    /\ \E t \in 1..3 :
          KeyValues(dfs[t], merge_columns[t])
             \ KeyValues(returned[1], merge_columns[1]) # {}

\* C4: the statistics of table i count distinct key values: new_rows those of
\* table i absent from the running result as it stands before the join of
\* table i, missing_rows those of that running result absent from table i.
C4_StatsCountDistinctKeys ==
    [][Joined =>
          LET leftKeys == DistinctCells(result, merge_columns[1])
              rightKeys == DistinctCells(filtered_dfs[i + 1], merge_columns[i + 1])
          IN  /\ merge_stats'.new_rows_per_file[i]
                    = Cardinality(rightKeys \ leftKeys)
              /\ merge_stats'.missing_rows_per_file[i]
                    = Cardinality(leftKeys \ rightKeys)]_vars

\* C5: every selected column X other than the key is in the projection under
\* the name <stem>_X, the stem being the file name without its trailing
\* format suffix, also for a file name with more than one '.'.
C5_RenamedWithTrailingSuffixStripped ==
    \A t \in 1..Len(filtered_dfs) :
        \A col \in SelectedCols(selected_columns, t - 1) \ {merge_columns[t]} :
            (TrailingStripped(df_names[t]) \o <<"_">> \o col)
                \in filtered_dfs[t].cols

\* C6: two tables never give a non-key column the same name, whatever their
\* file names, and the returned table holds every such column under the name
\* its projection gave it.
C6_NoCollisionForAnyLabels ==
    /\ \A t1, t2 \in 1..Len(filtered_dfs) :
          t1 # t2 => NonKeyLabels(t1) \cap NonKeyLabels(t2) = {}
    /\ pc = "done" =>
          \A t \in 1..Len(filtered_dfs) : NonKeyLabels(t) \subseteq returned[1].cols

\* C7: a merge column that is not a column of its table ends the call with
\* the merge error of line 80, and nothing is returned.
C7_AbsentKeyIsMergeError ==
    (/\ pc \in {"raised", "done"}
     /\ Len(dfs) >= 2
     /\ \E t \in 1..Len(dfs) : merge_columns[t] \notin dfs[t].cols)
    => /\ pc = "raised"
       /\ raised = "ValueError: Error merging DataFrames"
       /\ returned = <<>>

\* C8: with fewer than two tables the call ends with the error of line 20,
\* and no projection, statistics, join or return takes place.
C8_TooFewTablesRefusedFirst ==
    Len(dfs) < 2 =>
        /\ pc \in {"check", "raised"}
        /\ pc = "raised" =>
              raised = "ValueError: At least two DataFrames are required for merging"
        /\ filtered_dfs = <<>>
        /\ result = NoFrame
        /\ merge_stats = NoStats
        /\ returned = <<>>

\* The call with one table, its merge column absent from it, was refused.
C8_Witness ==
    /\ Len(dfs) = 1
    /\ merge_columns[1] \notin dfs[1].cols
    /\ pc = "raised"

\* C9: every projection has a column labelled with its table's merge column,
\* holding that column's cells, whatever selected_columns says of the table.
C9_KeyColumnSurvivesProjection ==
    \A t \in 1..Len(filtered_dfs) :
        /\ merge_columns[t] \in filtered_dfs[t].cols
        /\ \A r \in 1..Len(dfs[t].rows) :
              filtered_dfs[t].rows[r][merge_columns[t]]
                  = dfs[t].rows[r][merge_columns[t]]

\* Three tables are projected: one whose selection holds its merge column,
\* one whose selection does not, one with no entry in selected_columns.
C9_Witness ==
    /\ Len(filtered_dfs) = 3
    /\ \E t \in 1..3 : /\ (t - 1) \in DOMAIN selected_columns
                       /\ merge_columns[t] \in selected_columns[t - 1]
    /\ \E t \in 1..3 : /\ (t - 1) \in DOMAIN selected_columns
                       /\ merge_columns[t] \notin selected_columns[t - 1]
    /\ \E t \in 1..3 : (t - 1) \notin DOMAIN selected_columns

\* C10: total_rows_original is the number of rows of the tables as passed
\* in, a value that the merge type has no part in.
C10_TotalRowsOriginalIsInputRows ==
    pc \in {"merge", "done"} =>
        /\ merge_stats.total_rows_original =
              Cardinality(UNION {{<<t, r>> : r \in 1..Len(dfs[t].rows)} :
                                    t \in 1..Len(dfs)})
        /\ pc = "done" =>
              returned[2].total_rows_original = merge_stats.total_rows_original

\* An inner merge of three tables of different sizes has returned fewer rows
\* than the tables hold.
C10_Witness ==
    /\ pc = "done"
    /\ merge_type = "inner"
    /\ Len(dfs) = 3
    /\ Len(dfs[1].rows) # Len(dfs[2].rows)
    /\ Len(dfs[3].rows) > 0
    /\ returned[2].total_rows_merged < returned[2].total_rows_original

====
